---- MODULE Spec2Model ----
(***************************************************************************)
(* A model of the dynamic-table pipeline of jira_database_etl:             *)
(* extract_path, infer_columns, drop_and_create_table, insert_rows and     *)
(* Database.upload_dynamic (src/jira_database_etl/__init__.py).            *)
(***************************************************************************)
EXTENDS Integers, Sequences, FiniteSets, TLC

VARIABLES
    call,         \* a direct call of one of the functions: its arguments and
                  \* what it returned
    issues_json,  \* upload_dynamic's argument (its rows are tagged in place)
    store,        \* the relational store: table name -> NoTable or a table
    env,          \* what the store refuses, fixed for one behaviour
    pc,           \* position in upload_dynamic
    ti,           \* index of the current entry of DYNAMIC_TABLES
    all_rows,     \* upload_dynamic's all_rows
    cols,         \* upload_dynamic's cols / flat_cols
    flat_rows,    \* upload_dynamic's flat_rows
    gathered,     \* table name -> the rows this run gathered for it (history)
    stmts,        \* the SQL statements sent to the store in this run, in order
    logs,         \* the logger calls of this run, in order
    err,          \* the exception that left upload_dynamic, or "none"
    runs          \* number of runs of upload_dynamic started so far

vars == <<call, issues_json, store, env, pc, ti, all_rows, cols, flat_rows,
          gathered, stmts, logs, err, runs>>

(***************************************************************************)
(* Bounds of the model.                                                    *)
(***************************************************************************)
MaxDepth == 2     \* nesting depth of the documents given to extract_path
MaxSegs == 2      \* number of segments of the paths given to extract_path
MaxInferRows == 2 \* length of the sequences given to infer_columns
MaxDocs == 2      \* number of documents given to one run of upload_dynamic
MaxRuns == 2      \* number of runs of upload_dynamic in one behaviour
MaxLoadRows == 2  \* number of rows given to a direct call of insert_rows

(***************************************************************************)
(* JSON values as a tagged variant.  Python's None is Null; a str is Str;  *)
(* a number is Num; a list is List of a sequence; a dict is Dict of a      *)
(* function from its keys to their values.                                 *)
(***************************************************************************)
Null == [t |-> "null"]
Str(s) == [t |-> "str", s |-> s]
Num(n) == [t |-> "num", n |-> n]
List(l) == [t |-> "list", l |-> l]
Dict(d) == [t |-> "dict", d |-> d]
EmptyDict == Dict([k \in {} |-> Null])

IsDict(v) == v.t = "dict"
IsList(v) == v.t = "list"
IsNone(v) == v.t = "null"

\* dict.get(k, default)
Get(v, k, default) == IF k \in DOMAIN v.d THEN v.d[k] ELSE default

Range(s) == {s[i] : i \in 1..Len(s)}

\* all orderings of a finite set, as sequences without repetition
Orderings(S) ==
    {s \in [1..Cardinality(S) -> S] : \A i, j \in 1..Cardinality(S) : s[i] = s[j] => i = j}

(***************************************************************************)
(* extract_path(obj, path).  A path is the sequence of its characters      *)
(* grouped in tokens, "." being the separator: "fields.subtasks" is        *)
(* <<"fields", ".", "subtasks">>.                                          *)
(***************************************************************************)
RECURSIVE SplitFrom(_, _, _)
SplitFrom(path, i, cur) ==
    IF i > Len(path) THEN <<cur>>
    ELSE IF path[i] = "." THEN <<cur>> \o SplitFrom(path, i + 1, "")
    ELSE SplitFrom(path, i + 1, cur \o path[i])

\* path.split(".")
Split(path) == SplitFrom(path, 1, "")

\* the loop without the test for None of line 131
RECURSIVE ExtractLoopKeepingNone(_, _, _)
ExtractLoopKeepingNone(obj, segs, i) ==
    IF i > Len(segs) THEN obj
    ELSE IF ~IsDict(obj) THEN List(<<>>)
    ELSE ExtractLoopKeepingNone(Get(obj, segs[i], List(<<>>)), segs, i + 1)

RECURSIVE ExtractLoop(_, _, _)
ExtractLoop(obj, segs, i) ==
    IF i > Len(segs) THEN obj
    ELSE IF ~IsDict(obj) THEN List(<<>>)
    ELSE LET nxt == Get(obj, segs[i], List(<<>>))
         IN  IF IsNone(nxt) THEN List(<<>>)
             ELSE ExtractLoop(nxt, segs, i + 1)

extract_path(obj, path) == ExtractLoop(obj, Split(path), 1)

(***************************************************************************)
(* infer_columns(rows): the keys of the dict elements, gathered in a set,  *)
(* then list(cols).  The order of list(set) is not fixed by the code:      *)
(* infer_columns is the set of the lists the call may return.              *)
(***************************************************************************)
\* the loop stopping at the first dict element
RECURSIVE InferLoopFirstDict(_, _, _)
InferLoopFirstDict(rows, i, acc) ==
    IF i > Len(rows) THEN acc
    ELSE IF IsDict(rows[i]) THEN acc \cup DOMAIN rows[i].d
    ELSE InferLoopFirstDict(rows, i + 1, acc)

RECURSIVE InferLoop(_, _, _)
InferLoop(rows, i, acc) ==
    IF i > Len(rows) THEN acc
    ELSE IF IsDict(rows[i]) THEN InferLoop(rows, i + 1, acc \cup DOMAIN rows[i].d)
    ELSE InferLoop(rows, i + 1, acc)

infer_columns(rows) == Orderings(InferLoop(rows, 1, {}))

(***************************************************************************)
(* json.dumps(v, ensure_ascii=False).  A Dict carries no key order: the    *)
(* keys are written in the order of KeyOrder.                              *)
(***************************************************************************)
KeyOrder ==
    <<"key", "fields", "subtasks", "changelog", "histories", "id", "summary",
      "text", "author", "displayName", "accountId", "created", "items",
      "field", "fromString", "toString", "issue_key", "author_name",
      "author_account_id", "from", "to">>

KeyPos == [k \in Range(KeyOrder) |-> CHOOSE i \in 1..Len(KeyOrder) : KeyOrder[i] = k]

\* the key of keys that KeyOrder puts first
FirstKey(keys) == CHOOSE k \in keys : \A j \in keys : KeyPos[k] <= KeyPos[j]

RECURSIVE Dumps(_), DumpsList(_, _), DumpsDict(_, _, _)
Dumps(v) ==
    CASE v.t = "null" -> "null"
      [] v.t = "str" -> "\"" \o v.s \o "\""
      [] v.t = "num" -> ToString(v.n)
      [] v.t = "list" -> "[" \o DumpsList(v.l, 1) \o "]"
      [] v.t = "dict" -> "{" \o DumpsDict(v.d, DOMAIN v.d, TRUE) \o "}"

DumpsList(l, i) ==
    IF i > Len(l) THEN ""
    ELSE (IF i > 1 THEN ", " ELSE "") \o Dumps(l[i]) \o DumpsList(l, i + 1)

DumpsItem(d, k, keys, first) ==
    (IF first THEN "" ELSE ", ") \o "\"" \o k \o "\": " \o Dumps(d[k])
    \o DumpsDict(d, keys \ {k}, FALSE)

DumpsDict(d, keys, first) ==
    IF keys = {} THEN "" ELSE DumpsItem(d, FirstKey(keys), keys, first)

(***************************************************************************)
(* The relational store.  A table is its column names and its rows, each   *)
(* row the parameters bound by the INSERT that made it.  The store refuses *)
(* a CREATE that names a column twice or a column of env.bad_columns, and  *)
(* an INSERT into a missing table or column, or one binding a dict, a list *)
(* or a value of env.bad_values.  When a CREATE is refused, the DROP sent  *)
(* with it is rolled back if env.ddl_atomic and stays done otherwise.      *)
(***************************************************************************)
NoTable == [exists |-> FALSE]
Table(columns, rows) == [exists |-> TRUE, columns |-> columns, rows |-> rows]

StoreAcceptsCreate(e, columns) ==
    /\ \A i, j \in 1..Len(columns) : columns[i] = columns[j] => i = j
    /\ Range(columns) \cap e.bad_columns = {}

StoreAcceptsInsert(st, e, table, columns, params) ==
    /\ st[table].exists
    /\ \A i, j \in 1..Len(columns) : columns[i] = columns[j] => i = j
    /\ DOMAIN params \subseteq st[table].columns
    /\ \A c \in DOMAIN params :
          ~IsDict(params[c]) /\ ~IsList(params[c]) /\ params[c] \notin e.bad_values

\* the row an accepted INSERT leaves: an unbound column is null
StoredRow(st, table, params) ==
    [c \in st[table].columns |-> IF c \in DOMAIN params THEN params[c] ELSE Null]

\* one executed statement, and whether the store raised on it; the column
\* list of a CREATE is kept up to its order
DropCreateStmt(table, columns, ok) ==
    [op |-> "DROP_CREATE", table |-> table, columns |-> Range(columns), ok |-> ok]
InsertStmt(table, params, ok) ==
    [op |-> "INSERT", table |-> table, params |-> params, ok |-> ok]

\* CREATE TABLE IF NOT EXISTS without the DROP: a table that exists is kept
CreateIfNotExists(st, e, table, columns) ==
    IF StoreAcceptsCreate(e, columns)
    THEN [store |-> IF st[table].exists THEN st
                    ELSE [st EXCEPT ![table] = Table(Range(columns), <<>>)],
          stmts |-> <<DropCreateStmt(table, columns, TRUE)>>,
          raised |-> FALSE]
    ELSE [store |-> st,
          stmts |-> <<DropCreateStmt(table, columns, FALSE)>>,
          raised |-> TRUE]

\* the columns replaced and the rows of the table kept
RecreateKeepingRows(st, e, table, columns) ==
    IF StoreAcceptsCreate(e, columns)
    THEN [store |-> [st EXCEPT ![table] =
                        Table(Range(columns), IF @.exists THEN @.rows ELSE <<>>)],
          stmts |-> <<DropCreateStmt(table, columns, TRUE)>>,
          raised |-> FALSE]
    ELSE [store |-> IF e.ddl_atomic THEN st ELSE [st EXCEPT ![table] = NoTable],
          stmts |-> <<DropCreateStmt(table, columns, FALSE)>>,
          raised |-> TRUE]

\* lines 145-153: one transaction holding DROP TABLE IF EXISTS; CREATE TABLE
drop_and_create_table(st, e, table, columns) ==
    IF StoreAcceptsCreate(e, columns)
    THEN [store |-> [st EXCEPT ![table] = Table(Range(columns), <<>>)],
          stmts |-> <<DropCreateStmt(table, columns, TRUE)>>,
          raised |-> FALSE]
    ELSE [store |-> IF e.ddl_atomic THEN st ELSE [st EXCEPT ![table] = NoTable],
          stmts |-> <<DropCreateStmt(table, columns, FALSE)>>,
          raised |-> TRUE]

\* the parameters without the json.dumps of lines 164-165
CleanWithoutDumps(r, columns) ==
    [c \in Range(columns) |-> Get(r, c, Null)]

\* lines 159-167: the parameters of one row
Clean(r, columns) ==
    [c \in Range(columns) |->
        LET v == Get(r, c, Null)
        IN  IF IsDict(v) \/ IsList(v) THEN Str(Dumps(v)) ELSE v]

\* lines 158-173: the loop, inside the transaction: pending holds the rows
\* inserted and not yet committed
RECURSIVE InsertLoop(_, _, _, _, _, _, _, _)
InsertRow(st, e, table, columns, rows, i, pending, sent, clean) ==
    IF StoreAcceptsInsert(st, e, table, columns, clean)
    THEN InsertLoop(st, e, table, columns, rows, i + 1,
                    Append(pending, StoredRow(st, table, clean)),
                    Append(sent, InsertStmt(table, clean, TRUE)))
    ELSE [rows |-> pending,
          stmts |-> Append(sent, InsertStmt(table, clean, FALSE)),
          raised |-> TRUE]

InsertLoop(st, e, table, columns, rows, i, pending, sent) ==
    IF i > Len(rows)
    THEN [rows |-> pending, stmts |-> sent, raised |-> FALSE]
    ELSE IF ~IsDict(rows[i])
    THEN [rows |-> pending, stmts |-> sent, raised |-> TRUE]
    ELSE InsertRow(st, e, table, columns, rows, i, pending, sent,
                   Clean(rows[i], columns))

\* a transaction that commits what was inserted before the exception
EndTransactionCommitting(st, table, done) ==
    [store |-> IF done.rows = <<>> THEN st
               ELSE [st EXCEPT ![table].rows = @ \o done.rows],
     stmts |-> done.stmts,
     raised |-> done.raised]

\* engine.begin() commits when the block ends and rolls back when an
\* exception leaves it
EndTransaction(st, table, done) ==
    IF done.raised
    THEN [store |-> st, stmts |-> done.stmts, raised |-> TRUE]
    ELSE [store |-> IF done.rows = <<>> THEN st
                    ELSE [st EXCEPT ![table].rows = @ \o done.rows],
          stmts |-> done.stmts,
          raised |-> FALSE]

\* lines 156-173
insert_rows(st, e, table, columns, rows) ==
    EndTransaction(st, table, InsertLoop(st, e, table, columns, rows, 1, <<>>, <<>>))

\* lines 206-207 (and 226-227): drop_and_create_table, then insert_rows
\* unless the first raised
LoadAfter(made, e, table, columns, rows) ==
    IF made.raised THEN made
    ELSE [insert_rows(made.store, e, table, columns, rows)
             EXCEPT !.stmts = made.stmts \o @]

materialize_then_load(st, e, table, columns, rows) ==
    LoadAfter(drop_and_create_table(st, e, table, columns), e, table, columns, rows)

(***************************************************************************)
(* Database.upload_dynamic.                                                *)
(***************************************************************************)
\* lines 19-22, in the order of the dict
DYNAMIC_TABLES ==
    <<[table |-> "jira_subtasks", path |-> <<"fields", ".", "subtasks">>],
      [table |-> "jira_changelog", path |-> <<"changelog", ".", "histories">>]>>

FlatTable == "jira_changelog_flat"
TableNames == {DYNAMIC_TABLES[i].table : i \in 1..Len(DYNAMIC_TABLES)} \cup {FlatTable}

\* r["issue_key"] = issue["key"]
Tag(r, key) ==
    Dict([k \in DOMAIN r.d \cup {"issue_key"} |-> IF k = "issue_key" THEN key ELSE r.d[k]])

\* lines 194-198 for one issue: the dict elements of rows, tagged
RECURSIVE TaggedRows(_, _, _)
TaggedRows(rows, key, i) ==
    IF i > Len(rows) THEN <<>>
    ELSE IF IsDict(rows[i]) THEN <<Tag(rows[i], key)>> \o TaggedRows(rows, key, i + 1)
    ELSE TaggedRows(rows, key, i + 1)

HasDict(rows) == IsList(rows) /\ \E i \in 1..Len(rows.l) : IsDict(rows.l[i])

\* every row tagged with the key of the first issue
RECURSIVE GatherFirstKey(_, _, _)
GatherFirstKey(issues, path, i) ==
    IF i > Len(issues) THEN <<>>
    ELSE LET rows == extract_path(issues[i], path)
         IN  (IF HasDict(rows) THEN TaggedRows(rows.l, issues[1].d["key"], 1) ELSE <<>>)
             \o GatherFirstKey(issues, path, i + 1)

\* lines 192-198: all_rows over the issues from i on
RECURSIVE Gather(_, _, _)
Gather(issues, path, i) ==
    IF i > Len(issues) THEN <<>>
    ELSE LET rows == extract_path(issues[i], path)
         IN  (IF HasDict(rows) THEN TaggedRows(rows.l, issues[i].d["key"], 1) ELSE <<>>)
             \o Gather(issues, path, i + 1)

\* line 197 reads issue["key"]: a KeyError when a row is found in an issue
\* that has no key
GatherRaises(issues, path) ==
    \E i \in 1..Len(issues) :
        HasDict(extract_path(issues[i], path)) /\ "key" \notin DOMAIN issues[i].d

\* the rows are tagged in place: what line 197 leaves in the issue
RECURSIVE TagInPlace(_, _, _, _)
TagInPlace(obj, segs, i, key) ==
    IF i > Len(segs)
    THEN List([j \in 1..Len(obj.l) |->
                 IF IsDict(obj.l[j]) THEN Tag(obj.l[j], key) ELSE obj.l[j]])
    ELSE Dict([obj.d EXCEPT ![segs[i]] = TagInPlace(@, segs, i + 1, key)])

TaggedIssue(issue, path) ==
    IF HasDict(extract_path(issue, path)) /\ "key" \in DOMAIN issue.d
    THEN TagInPlace(issue, Split(path), 1, issue.d["key"])
    ELSE issue

\* lines 213-221: one flattened row, or the exception the expression raises
FlatColumns ==
    <<"issue_key", "author_name", "author_account_id", "created", "field", "from", "to">>

FirstItem(r, name) ==
    \* r.get("items", [{}])[0].get(name) if isinstance(r.get("items"), list) else None
    IF IsList(Get(r, "items", Null)) THEN Get(r.d["items"].l[1], name, Null) ELSE Null

FlatRaises(r) ==
    IF ~IsList(Get(r, "items", Null)) THEN "none"
    ELSE IF Len(r.d["items"].l) = 0 THEN "IndexError"
    ELSE IF ~IsDict(r.d["items"].l[1]) THEN "AttributeError"
    ELSE "none"

Flat(r) ==
    LET author == Get(r, "author", Null)
    IN  Dict([c \in Range(FlatColumns) |->
            CASE c = "issue_key" -> Get(r, "issue_key", Null)
              [] c = "author_name" ->
                    IF IsDict(author) THEN Get(author, "displayName", Null) ELSE Null
              [] c = "author_account_id" ->
                    IF IsDict(author) THEN Get(author, "accountId", Null) ELSE Null
              [] c = "created" -> Get(r, "created", Null)
              [] c = "field" -> FirstItem(r, "field")
              [] c = "from" -> FirstItem(r, "fromString")
              [] c = "to" -> FirstItem(r, "toString")])

Info(what, table) == [level |-> "info", what |-> what, table |-> table]
Warning(what, table) == [level |-> "warning", what |-> what, table |-> table]

\* upload_dynamic's frame: ti, all_rows, cols and flat_rows live while the
\* function runs; a variable the code does not read again before it assigns
\* it holds the empty sequence
Frame(i, a, c, f) == ti' = i /\ all_rows' = a /\ cols' = c /\ flat_rows' = f

\* the loop of line 189 moves to the next entry, or the function returns
NextTarget ==
    IF ti < Len(DYNAMIC_TABLES)
    THEN pc' = "extract" /\ Frame(ti + 1, <<>>, <<>>, <<>>)
    ELSE pc' = "done" /\ Frame(ti, <<>>, <<>>, <<>>)

\* an exception leaves upload_dynamic: nothing in it catches one
Raise(e) == pc' = "raised" /\ err' = e /\ Frame(ti, <<>>, <<>>, <<>>)

(***************************************************************************)
(* The documents a run is given: issues as the fetcher returns them, each  *)
(* a mapping with its key.                                                 *)
(***************************************************************************)
Obj1(k1, v1) == Dict([k \in {k1} |-> v1])
Obj2(k1, v1, k2, v2) == Dict([k \in {k1, k2} |-> IF k = k1 THEN v1 ELSE v2])
Obj3(k1, v1, k2, v2, k3, v3) ==
    Dict([k \in {k1, k2, k3} |-> IF k = k1 THEN v1 ELSE IF k = k2 THEN v2 ELSE v3])

IssueA ==
    Obj3("key", Str("X-1"),
         "fields", Obj1("subtasks", List(<<Obj2("id", Str("10"), "summary", Str("a"))>>)),
         "changelog", Obj1("histories",
             List(<<Obj2("author", Str("bot"), "created", Str("t1"))>>)))

IssueB ==
    Obj3("key", Str("X-2"),
         "fields", Obj1("subtasks",
             List(<<Obj2("id", Num(11), "summary", Str("b")),
                    Str("junk"),
                    Obj1("summary", Obj1("text", Str("c")))>>)),
         "changelog", Obj1("histories",
             List(<<Obj2("author", Obj2("displayName", Str("Ann"), "accountId", Str("u1")),
                         "items",
                         List(<<Obj3("field", Str("status"), "fromString", Str("Open"),
                                     "toString", Str("Done")),
                                Obj3("field", Str("priority"), "fromString", Str("Low"),
                                     "toString", Str("High"))>>))>>)))

IssueC ==
    Obj3("key", Str("X-3"),
         "fields", Obj1("subtasks", Null),
         "changelog", Obj1("histories",
             List(<<Obj2("created", Str("t3"), "items", List(<<>>))>>)))

IssueD ==
    Obj3("key", Str("X-4"),
         "fields", Str("oops"),
         "changelog", Obj1("histories", Str("none")))

Issues == {IssueA, IssueB, IssueC, IssueD}

IssueLists == UNION {[1..n -> Issues] : n \in 0..MaxDocs}

\* what the store of one behaviour refuses
EnvProfiles ==
    {e \in [bad_columns : SUBSET {"summary"}, bad_values : SUBSET {Str("b")},
            ddl_atomic : BOOLEAN] :
        /\ e.bad_columns = {} => e.ddl_atomic
        /\ e.bad_columns = {} \/ e.bad_values = {}}

NoCall == [fn |-> "none"]
NoRows == [t \in TableNames |-> <<>>]

Init ==
    /\ call = NoCall
    /\ issues_json = <<>>
    /\ store = [t \in TableNames |-> NoTable]
    /\ env \in EnvProfiles
    /\ pc = "idle"
    /\ ti = 1
    /\ all_rows = <<>>
    /\ cols = <<>>
    /\ flat_rows = <<>>
    /\ gathered = NoRows
    /\ stmts = <<>>
    /\ logs = <<>>
    /\ err = "none"
    /\ runs = 0

\* line 249: init_script calls upload_dynamic with the issues it fetched
StartRun ==
    /\ pc \in {"idle", "done", "raised"}
    /\ runs < MaxRuns
    /\ \E issues \in IssueLists : issues_json' = issues
    /\ runs' = runs + 1
    /\ pc' = "extract"
    /\ Frame(1, <<>>, <<>>, <<>>)
    /\ gathered' = NoRows
    /\ stmts' = <<>>
    /\ logs' = <<>>
    /\ err' = "none"
    /\ UNCHANGED <<call, store, env>>

\* no test for an empty all_rows
NeverEmpty(rows) == FALSE

\* line 200: if not all_rows
NothingGathered(rows) == rows = <<>>

\* lines 189-202: gather the rows of the current target; none: warn and go on
Extract ==
    /\ pc = "extract"
    /\ LET table == DYNAMIC_TABLES[ti].table
           path == DYNAMIC_TABLES[ti].path
       IN  IF GatherRaises(issues_json, path)
           THEN /\ Raise("KeyError")
                /\ logs' = Append(logs, Info("extracting", table))
                /\ UNCHANGED <<issues_json, gathered>>
           ELSE \E rows \in {Gather(issues_json, path, 1)} :
                    /\ gathered' = [gathered EXCEPT ![table] = rows]
                    /\ issues_json' =
                          [i \in 1..Len(issues_json) |-> TaggedIssue(issues_json[i], path)]
                    /\ err' = err
                    /\ IF NothingGathered(rows)
                       THEN /\ logs' = logs \o <<Info("extracting", table),
                                                 Warning("no rows", table)>>
                            /\ NextTarget
                       ELSE /\ logs' = Append(logs, Info("extracting", table))
                            /\ pc' = "materialize"
                            /\ Frame(ti, rows, <<>>, <<>>)
    /\ UNCHANGED <<call, store, env, stmts, runs>>

\* lines 205-207: cols = infer_columns(all_rows), in whichever order
\* list(set) gives; drop_and_create_table; insert_rows; then the flattening
\* for jira_changelog, or the next target
MaterializeAndLoad ==
    /\ pc = "materialize"
    /\ \E res \in {materialize_then_load(store, env, DYNAMIC_TABLES[ti].table, c, all_rows) :
                        c \in infer_columns(all_rows)} :
          LET table == DYNAMIC_TABLES[ti].table
          IN  /\ store' = res.store
              /\ stmts' = stmts \o res.stmts
              /\ logs' = IF res.stmts[1].ok THEN Append(logs, Info("created", table))
                         ELSE logs
              /\ IF res.raised
                 THEN Raise("StoreError")
                 ELSE /\ err' = err
                      /\ IF table = "jira_changelog"
                         THEN pc' = "flatten" /\ Frame(ti, all_rows, <<>>, <<>>)
                         ELSE NextTarget
    /\ UNCHANGED <<call, issues_json, env, gathered, runs>>

\* lines 210-224: flat_rows and flat_cols
Flatten ==
    /\ pc = "flatten"
    /\ IF \E i \in 1..Len(all_rows) : FlatRaises(all_rows[i]) # "none"
       THEN LET first == CHOOSE i \in 1..Len(all_rows) :
                            /\ FlatRaises(all_rows[i]) # "none"
                            /\ \A j \in 1..(i - 1) : FlatRaises(all_rows[j]) = "none"
            IN  /\ Raise(FlatRaises(all_rows[first]))
                /\ UNCHANGED gathered
       ELSE \E flat \in {[i \in 1..Len(all_rows) |-> Flat(all_rows[i])]} :
                /\ gathered' = [gathered EXCEPT ![FlatTable] = flat]
                /\ err' = err
                /\ IF flat # <<>>
                   THEN pc' = "flat_materialize" /\ Frame(ti, <<>>, FlatColumns, flat)
                   ELSE NextTarget
    /\ UNCHANGED <<call, issues_json, store, env, stmts, logs, runs>>

\* line 226
FlatMaterialize ==
    /\ pc = "flat_materialize"
    /\ \E made \in {drop_and_create_table(store, env, FlatTable, cols)} :
           /\ store' = made.store
           /\ stmts' = stmts \o made.stmts
           /\ IF made.raised
              THEN Raise("StoreError") /\ logs' = logs
              ELSE /\ logs' = Append(logs, Info("created", FlatTable))
                   /\ pc' = "flat_load"
                   /\ Frame(ti, <<>>, cols, flat_rows)
                   /\ err' = err
    /\ UNCHANGED <<call, issues_json, env, gathered, runs>>

\* lines 227-228
FlatLoad ==
    /\ pc = "flat_load"
    /\ \E done \in {insert_rows(store, env, FlatTable, cols, flat_rows)} :
           /\ store' = done.store
           /\ stmts' = stmts \o done.stmts
           /\ IF done.raised
              THEN Raise("StoreError") /\ logs' = logs
              ELSE /\ logs' = Append(logs, Info("uploaded flattened", FlatTable))
                   /\ err' = err
                   /\ NextTarget
    /\ UNCHANGED <<call, issues_json, env, gathered, runs>>

Next ==
    \/ StartRun
    \/ Extract
    \/ MaterializeAndLoad
    \/ Flatten
    \/ FlatMaterialize
    \/ FlatLoad

Spec == Init /\ [][Next]_vars

(***************************************************************************)
(* Direct calls of extract_path, infer_columns and of the pair             *)
(* drop_and_create_table, insert_rows, on arguments drawn from bounded     *)
(* sets, everything else at rest.                                          *)
(***************************************************************************)
AtRest ==
    /\ issues_json = <<>>
    /\ store = [t \in TableNames |-> NoTable]
    /\ pc = "idle"
    /\ ti = 1
    /\ all_rows = <<>>
    /\ cols = <<>>
    /\ flat_rows = <<>>
    /\ gathered = NoRows
    /\ stmts = <<>>
    /\ logs = <<>>
    /\ err = "none"
    /\ runs = 0

Leaves == {Null, Str("x"), Num(0), List(<<>>)}
ExKeys == {"a", "b", ""}

\* the documents of nesting depth n at most
JsonValues[n \in Nat] ==
    IF n = 0 THEN Leaves
    ELSE Leaves \cup {EmptyDict}
         \cup {List(<<v>>) : v \in JsonValues[n - 1]}
         \cup {Obj1(k, v) : k \in ExKeys, v \in JsonValues[n - 1]}
         \cup {Obj2("a", v, "b", Str("x")) : v \in JsonValues[n - 1]}

\* the paths of n segments at most, each segment "", "a" or "b"
Segments == {<<>>, <<"a">>, <<"b">>}
Paths[n \in Nat] ==
    IF n = 0 THEN {}
    ELSE Segments \cup Paths[n - 1]
         \cup {p \o <<".">> \o seg : p \in Paths[n - 1], seg \in Segments}

InitExtract ==
    /\ \E obj \in JsonValues[MaxDepth], path \in Paths[MaxSegs] :
          call = [fn |-> "extract_path", obj |-> obj, path |-> path, returned |-> FALSE]
    /\ env \in {e \in EnvProfiles : e.bad_columns = {} /\ e.bad_values = {}}
    /\ AtRest

ExtractCall ==
    /\ call.fn = "extract_path"
    /\ ~call.returned
    /\ call' = [fn |-> "extract_path", obj |-> call.obj, path |-> call.path,
                returned |-> TRUE, ret |-> extract_path(call.obj, call.path)]
    /\ UNCHANGED <<issues_json, store, env, pc, ti, all_rows, cols, flat_rows,
                   gathered, stmts, logs, err, runs>>

NextExtract == ExtractCall

SpecExtract == InitExtract /\ [][NextExtract]_vars

InferRowValues ==
    {Null, Str("x"), EmptyDict, Obj1("a", Null), Obj1("b", Num(1)),
     Obj2("a", Str("x"), "b", Null), Obj1("c", List(<<>>))}

InitInfer ==
    /\ \E n \in 0..MaxInferRows : \E rows \in [1..n -> InferRowValues] :
          call = [fn |-> "infer_columns", rows |-> rows, returned |-> FALSE]
    /\ env \in {e \in EnvProfiles : e.bad_columns = {} /\ e.bad_values = {}}
    /\ AtRest

InferCall ==
    /\ call.fn = "infer_columns"
    /\ ~call.returned
    /\ \E ret \in infer_columns(call.rows) :
          call' = [fn |-> "infer_columns", rows |-> call.rows, returned |-> TRUE,
                   ret |-> ret]
    /\ UNCHANGED <<issues_json, store, env, pc, ti, all_rows, cols, flat_rows,
                   gathered, stmts, logs, err, runs>>

NextInfer == InferCall

SpecInfer == InitInfer /\ [][NextInfer]_vars

LoadTables == {"jira_subtasks"}
\* column lists: one column, two, and a column named twice
LoadColumnLists == {<<"summary">>, <<"id", "summary">>, <<"id", "id">>}
\* rows: scalars only; a structured value and a row without id; no mapping
LoadRowValues ==
    {Obj2("id", Str("10"), "summary", Str("a")),
     Obj1("summary", Obj1("text", Str("b"))),
     Obj2("id", Num(11), "summary", Str("b")),
     Str("junk")}
LoadRowLists == UNION {[1..n -> LoadRowValues] : n \in 0..MaxLoadRows}

InitLoad ==
    /\ call = NoCall
    /\ env \in EnvProfiles
    /\ AtRest

\* drop_and_create_table(engine, table, columns) and then, unless it
\* raised, insert_rows(engine, table, columns, rows)
DirectLoad ==
    /\ \E table \in LoadTables, columns \in LoadColumnLists, rows \in LoadRowLists :
       \E res \in {materialize_then_load(store, env, table, columns, rows)} :
          /\ store' = res.store
          /\ stmts' = res.stmts
          /\ call' = [fn |-> "materialize_then_load", table |-> table,
                      columns |-> columns, rows |-> rows, raised |-> res.raised]
    /\ UNCHANGED <<issues_json, env, pc, ti, all_rows, cols, flat_rows, gathered,
                   logs, err, runs>>

NextLoad == DirectLoad

SpecLoad == InitLoad /\ [][NextLoad]_vars

(***************************************************************************)
(* The claims.                                                             *)
(***************************************************************************)
\* the ColumnSet of a sequence of rows: the union of their key sets
ColumnSet(rows) == UNION {DOMAIN rows[i].d : i \in {j \in 1..Len(rows) : IsDict(rows[j])}}

Structured(v) == IsDict(v) \/ IsList(v)

\* what a row binds for a column: its value, the text of a structured
\* value, null for a key it has not
BoundFor(r, c) ==
    IF c \notin DOMAIN r.d THEN Null
    ELSE IF Structured(r.d[c]) THEN Str(Dumps(r.d[c]))
    ELSE r.d[c]

\* the statements of this run sent for a table, in order
StmtsFor(table) == SelectSeq(stmts, LAMBDA q : q.table = table)
InsertsFor(table) == SelectSeq(stmts, LAMBDA q : q.table = table /\ q.op = "INSERT")

\* the run has dropped and recreated the table
Materialized(table) ==
    \E k \in 1..Len(stmts) :
        stmts[k].op = "DROP_CREATE" /\ stmts[k].table = table /\ stmts[k].ok

\* the run has gone through lines 190-202 for entry i of DYNAMIC_TABLES
Extracted(i) == Info("extracting", DYNAMIC_TABLES[i].table) \in Range(logs)

\* C1: a failure of drop_and_create_table or insert_rows for one target is
\* caught, and every later target of DYNAMIC_TABLES is still processed in
\* the run: no store failure leaves upload_dynamic while a later target is
\* still to be processed.
C1_FailureContained ==
    ~(pc = "raised" /\ err = "StoreError" /\ ti < Len(DYNAMIC_TABLES))

RECURSIVE NodeAt(_, _, _)
NodeAt(obj, segs, k) == IF k = 0 THEN obj ELSE NodeAt(obj, segs, k - 1).d[segs[k]]

Resolves(obj, segs, k) ==
    \A i \in 1..k :
        /\ IsDict(NodeAt(obj, segs, i - 1))
        /\ segs[i] \in DOMAIN NodeAt(obj, segs, i - 1).d
        /\ ~IsNone(NodeAt(obj, segs, i))

\* the segments of a path, read off its tokens: segment j lies between the
\* (j-1)-th and the j-th "."
DotsBefore(path, i) == Cardinality({j \in 1..(i - 1) : path[j] = "."})
SegmentCount(path) == DotsBefore(path, Len(path) + 1) + 1

\* C3: extract_path returns [] when some segment does not resolve (the node
\* is no mapping, the segment is absent, its value is null), and the value
\* reached, unchanged, when every segment resolves.
C3_ExtractPath ==
    (call.fn = "extract_path" /\ call.returned) =>
        LET segs == Split(call.path)
        IN  /\ Len(segs) = SegmentCount(call.path)
            /\ call.ret = IF Resolves(call.obj, segs, Len(segs))
                          THEN NodeAt(call.obj, segs, Len(segs))
                          ELSE List(<<>>)

\* a call whose first segment resolves to a mapping and whose second segment
\* is null there
C3_Witness ==
    /\ call.fn = "extract_path"
    /\ call.returned
    /\ call.path = <<"a", ".", "b">>
    /\ call.obj = Obj1("a", Obj1("b", Null))
    /\ call.ret = List(<<>>)

\* C4 as stated: infer_columns(R) is the union of the key sets of the
\* mappings of R, without repetition, and is empty exactly when R holds no
\* mapping.
C4_EmptyIffNoMapping ==
    (call.fn = "infer_columns" /\ call.returned) =>
        /\ Range(call.ret) = ColumnSet(call.rows)
        /\ Len(call.ret) = Cardinality(Range(call.ret))
        /\ (call.ret = <<>>) <=> ~\E i \in 1..Len(call.rows) : IsDict(call.rows[i])

\* C4 as amended: infer_columns(R) is the union of the key sets of the
\* mappings of R, without repetition, and is empty exactly when no mapping
\* of R has a key.
C4_InferColumns ==
    (call.fn = "infer_columns" /\ call.returned) =>
        /\ \A c \in Range(call.ret) :
              \E i \in 1..Len(call.rows) : IsDict(call.rows[i]) /\ c \in DOMAIN call.rows[i].d
        /\ \A i \in 1..Len(call.rows) :
              IsDict(call.rows[i]) => DOMAIN call.rows[i].d \subseteq Range(call.ret)
        /\ Len(call.ret) = Cardinality(Range(call.ret))
        /\ (call.ret = <<>>) <=>
              \A i \in 1..Len(call.rows) : IsDict(call.rows[i]) => DOMAIN call.rows[i].d = {}

\* a call on a mapping without keys and a non-mapping: nothing is returned
C4_Witness ==
    /\ call.fn = "infer_columns"
    /\ call.returned
    /\ call.rows = <<EmptyDict, Str("x")>>
    /\ call.ret = <<>>

\* the flattened row C5 describes
ClaimedFlat(r) ==
    LET author == Get(r, "author", Null)
        items == Get(r, "items", Null)
        first == IF IsList(items) /\ Len(items.l) > 0 THEN items.l[1] ELSE EmptyDict
    IN  Dict([c \in Range(FlatColumns) |->
            CASE c = "issue_key" -> r.d["issue_key"]
              [] c = "author_name" ->
                    IF IsDict(author) THEN Get(author, "displayName", Null) ELSE Null
              [] c = "author_account_id" ->
                    IF IsDict(author) THEN Get(author, "accountId", Null) ELSE Null
              [] c = "created" -> Get(r, "created", Null)
              [] c = "field" -> Get(first, "field", Null)
              [] c = "from" -> Get(first, "fromString", Null)
              [] c = "to" -> Get(first, "toString", Null)])

\* C5: the flattening never fails, and gives for every jira_changelog row
\* one row of the fixed columns, field/from/to taken from the first element
\* of items, null when items is absent or empty.
C5_FlatteningTotal ==
    /\ err \notin {"IndexError", "AttributeError"}
    /\ pc \in {"flat_materialize", "flat_load"} =>
          /\ cols = FlatColumns
          /\ flat_rows = [i \in 1..Len(gathered["jira_changelog"]) |->
                             ClaimedFlat(gathered["jira_changelog"][i])]

\* C6: a target that gathered no row has no statement sent for its table
\* (nor for jira_changelog_flat when it is jira_changelog), a warning is
\* logged, and the run goes on to the next target.
C6_EmptyTargetSkipped ==
    \A i \in 1..Len(DYNAMIC_TABLES) :
        LET table == DYNAMIC_TABLES[i].table
        IN  (Extracted(i) /\ gathered[table] = <<>>) =>
                /\ StmtsFor(table) = <<>>
                /\ table = "jira_changelog" => StmtsFor(FlatTable) = <<>>
                /\ Warning("no rows", table) \in Range(logs)
                /\ pc # "raised" \/ ti # i
                /\ ti > i \/ pc = "done"

\* jira_subtasks gathered no row from a document whose path is null, and the
\* run went on to load jira_changelog
C6_Witness ==
    /\ issues_json # <<>>
    /\ Extracted(1)
    /\ gathered["jira_subtasks"] = <<>>
    /\ Warning("no rows", "jira_subtasks") \in Range(logs)
    /\ InsertsFor("jira_changelog") # <<>>

\* C7: every INSERT binds one parameter for each column of the table's
\* ColumnSet, the row's value or null when the row has no such key, and
\* never a structured value: the text of it instead.
C7_InsertParameters ==
    \A t \in TableNames :
        \A k \in 1..Len(InsertsFor(t)) :
            LET q == InsertsFor(t)[k]
                row == gathered[t][k]
            IN  /\ DOMAIN q.params = ColumnSet(gathered[t])
                /\ \A c \in DOMAIN q.params :
                      /\ ~Structured(q.params[c])
                      /\ c \notin DOMAIN row.d => q.params[c] = Null
                      /\ (c \in DOMAIN row.d /\ ~Structured(row.d[c])) =>
                            q.params[c] = row.d[c]
                      /\ (c \in DOMAIN row.d /\ Structured(row.d[c])) =>
                            q.params[c] = Str(Dumps(row.d[c]))

\* an INSERT into jira_subtasks of a row without id and with a mapping for
\* summary
C7_Witness ==
    \E k \in 1..Len(InsertsFor("jira_subtasks")) :
        LET q == InsertsFor("jira_subtasks")[k]
            row == gathered["jira_subtasks"][k]
        IN  /\ q.ok
            /\ "id" \in DOMAIN q.params /\ "id" \notin DOMAIN row.d
            /\ q.params["id"] = Null
            /\ IsDict(row.d["summary"])
            /\ q.params["summary"] = Str("{\"text\": \"c\"}")

\* C8: drop_and_create_table then insert_rows, run again with the same
\* arguments, leaves the store as the first run of the pair left it.
C8_Idempotent ==
    call.fn = "materialize_then_load" =>
        materialize_then_load(store, env, call.table, call.columns, call.rows).store = store

\* a pair that loaded two rows
C8_Witness ==
    /\ call.fn = "materialize_then_load"
    /\ ~call.raised
    /\ Len(call.rows) = 2
    /\ Len(store[call.table].rows) = 2

\* the rows C9 expects in a target's table: for each document in order, the
\* mappings of the list at the path, each with the document's key
ExpectedFrom(doc, segs) ==
    IF Resolves(doc, segs, Len(segs)) /\ IsList(NodeAt(doc, segs, Len(segs)))
    THEN LET found == SelectSeq(NodeAt(doc, segs, Len(segs)).l, IsDict)
         IN  [k \in 1..Len(found) |-> Tag(found[k], doc.d["key"])]
    ELSE <<>>

RECURSIVE Expected(_, _, _)
Expected(docs, segs, i) ==
    IF i > Len(docs) THEN <<>>
    ELSE ExpectedFrom(docs[i], segs) \o Expected(docs, segs, i + 1)

\* the load of the table went through
Loaded(table) ==
    /\ Materialized(table)
    /\ \A k \in 1..Len(InsertsFor(table)) : InsertsFor(table)[k].ok

\* C9: the rows loaded into a target's table are the mappings of the list at
\* the target's path in each document, in document order, each with the key
\* of its own document as issue_key.
C9_RowsLoaded ==
    \A i \in 1..Len(DYNAMIC_TABLES) :
        LET table == DYNAMIC_TABLES[i].table
            rows == Expected(issues_json, <<"fields", "subtasks">>, 1)
            hist == Expected(issues_json, <<"changelog", "histories">>, 1)
            want == IF table = "jira_subtasks" THEN rows ELSE hist
        IN  Loaded(table) =>
                /\ store[table].columns = ColumnSet(want)
                /\ Len(store[table].rows) = Len(want)
                /\ \A k \in 1..Len(want) : \A c \in ColumnSet(want) :
                      store[table].rows[k][c] = BoundFor(want[k], c)

\* Scenario A and more: X-1's subtask and X-2's two, loaded in that order
C9_Witness ==
    /\ Loaded("jira_subtasks")
    /\ Len(store["jira_subtasks"].rows) = 3
    /\ store["jira_subtasks"].rows[1] =
          [id |-> Str("10"), summary |-> Str("a"), issue_key |-> Str("X-1")]
    /\ store["jira_subtasks"].rows[2]["issue_key"] = Str("X-2")

\* C10: the table is dropped and recreated, committed, before its first
\* INSERT is sent; an INSERT the store refuses is the last statement of the
\* run, and leaves the table with the new columns and no row.
C10_LoadAborts ==
    /\ \A k \in 1..Len(stmts) :
          stmts[k].op = "INSERT" =>
              /\ \E j \in 1..(k - 1) :
                    stmts[j] = [op |-> "DROP_CREATE", table |-> stmts[k].table,
                                columns |-> DOMAIN stmts[k].params, ok |-> TRUE]
              /\ store[stmts[k].table].exists
              /\ store[stmts[k].table].columns = DOMAIN stmts[k].params
              /\ ~stmts[k].ok =>
                    /\ k = Len(stmts)
                    /\ pc = "raised"
                    /\ store[stmts[k].table].rows = <<>>
    /\ pc = "flat_load" => store[FlatTable] = Table(Range(FlatColumns), <<>>)

\* the second INSERT of a load of three rows is refused
C10_Witness ==
    /\ Len(InsertsFor("jira_subtasks")) = 2
    /\ InsertsFor("jira_subtasks")[1].ok
    /\ ~InsertsFor("jira_subtasks")[2].ok
    /\ Len(gathered["jira_subtasks"]) = 3
    /\ store["jira_subtasks"] = Table({"id", "summary", "issue_key"}, <<>>)

====
